---- MODULE Spec2Model ----
(***************************************************************************)
(* Model of the reservation API of src/index.js: process startup, the      *)
(* validator validateReservation, and the POST /api/reservations handler   *)
(* with its two awaited collaborator calls (getCalendar and                *)
(* calendar.events.insert).                                                *)
(*                                                                         *)
(* Time is scaled: an instant is a whole number of hours, and the range of *)
(* instants a JavaScript Date can hold is 0..MaxTime.  NaN is the time     *)
(* value of an Invalid Date.  JavaScript strings are TLA+ strings; the     *)
(* values undefined and null are the sentinels Undefined and Null.         *)
(***************************************************************************)
EXTENDS Integers, Sequences, FiniteSets, TLC

\* ------------------------------------------------------------- bounds
\* Last instant (in hours) a Date can represent.
MaxTime == 2
\* Number of POST /api/reservations requests the server receives.
NReq == 2

\* ------------------------------------------------------------- values
Undefined == "<undefined>"
Null == "<null>"
NaN == -1
TwoHours == 2

\* JavaScript truthiness of a string-or-undefined value.
Truthy(v) == v # Undefined /\ v # Null /\ v # ""

\* Date.prototype.toISOString renders an instant as text; the table is the
\* rendering of the instants 0, 1, 2, ...
IsoTable ==
  << "1970-01-01T00:00:00.000Z", "1970-01-01T01:00:00.000Z",
     "1970-01-01T02:00:00.000Z", "1970-01-01T03:00:00.000Z",
     "1970-01-01T04:00:00.000Z", "1970-01-01T05:00:00.000Z",
     "1970-01-01T06:00:00.000Z", "1970-01-01T07:00:00.000Z" >>

\* TimeClip of the Date constructor: a time value outside the range is NaN.
TimeClip(t) == IF t = NaN \/ t < 0 \/ t > MaxTime THEN NaN ELSE t

\* The instant each rendering denotes (the inverse of the table).
IsoInstant ==
  [ s \in {IsoTable[i] : i \in 1..Len(IsoTable)} |->
      (CHOOSE i \in 1..Len(IsoTable) : IsoTable[i] = s) - 1 ]

\* new Date(s).getTime(): the instant a string denotes, NaN when it denotes
\* none or one outside the representable range.
ParseDate(s) == IF s \in DOMAIN IsoInstant THEN TimeClip(IsoInstant[s]) ELSE NaN

\* date.toISOString(): defined on valid dates only (it throws RangeError on
\* an Invalid Date, which the callers test with CanRender).
CanRender(t) == t # NaN
toISOString(t) == IsoTable[t + 1]

\* ------------------------------------------------------------- validator
ErrRequired == "name and startDateTime are required"
ErrStart == "startDateTime must be a valid ISO datetime"
ErrEnd == "endDateTime must be a valid ISO datetime"
ErrOrder == "endDateTime must be after startDateTime"

\* Variant: the end is examined before the start.
validateReservationEndFirst(body) ==
  IF ~Truthy(body.name) \/ ~Truthy(body.startDateTime) THEN ErrRequired
  ELSE IF Truthy(body.endDateTime) /\ ParseDate(body.endDateTime) = NaN THEN ErrEnd
  ELSE IF ParseDate(body.startDateTime) = NaN THEN ErrStart
  ELSE IF Truthy(body.endDateTime) /\ ParseDate(body.endDateTime) <= ParseDate(body.startDateTime)
    THEN ErrOrder
  ELSE Null

\* Variant: the parsed end is never tested for NaN (every comparison with
\* NaN is false, so an unparseable end passes).
validateReservationNoEndCheck(body) ==
  IF ~Truthy(body.name) \/ ~Truthy(body.startDateTime) THEN ErrRequired
  ELSE IF ParseDate(body.startDateTime) = NaN THEN ErrStart
  ELSE IF /\ Truthy(body.endDateTime)
          /\ ParseDate(body.endDateTime) # NaN
          /\ ParseDate(body.endDateTime) <= ParseDate(body.startDateTime)
    THEN ErrOrder
  ELSE Null

validateReservation(body) ==
  IF ~Truthy(body.name) \/ ~Truthy(body.startDateTime) THEN ErrRequired
  ELSE LET start == ParseDate(body.startDateTime) IN
    IF start = NaN THEN ErrStart
    ELSE IF Truthy(body.endDateTime)
      THEN LET end == ParseDate(body.endDateTime) IN
        IF end = NaN THEN ErrEnd
        ELSE IF end <= start THEN ErrOrder
        ELSE Null
      ELSE Null

\* ------------------------------------------------------------- event builder
\* const start = new Date(startDateTime)
StartOf(body) == ParseDate(body.startDateTime)

\* Variant: the default end is the start itself.
EndOfNoDefault(body) ==
  IF Truthy(body.endDateTime) THEN ParseDate(body.endDateTime)
  ELSE TimeClip(ParseDate(body.startDateTime))

\* const end = endDateTime ? new Date(endDateTime) : new Date(start + 2h)
EndOf(body) ==
  IF Truthy(body.endDateTime) THEN ParseDate(body.endDateTime)
  ELSE TimeClip(StartOf(body) + TwoHours)

\* start.toISOString() and end.toISOString() both return.
RenderOk(body) == CanRender(StartOf(body)) /\ CanRender(EndOf(body))

\* Template strings are sequences of their parts.
Summary(body) ==
  <<"Reservation: ", body.name>>
    \o (IF Truthy(body.partySize) THEN <<" - party of ", body.partySize>> ELSE <<>>)

Description(body) ==
  <<"Name: ", body.name>>
    \o (IF Truthy(body.email) THEN <<"Email: ", body.email>> ELSE <<>>)
    \o (IF Truthy(body.phone) THEN <<"Phone: ", body.phone>> ELSE <<>>)
    \o (IF Truthy(body.partySize) THEN <<"Party size: ", body.partySize>> ELSE <<>>)
    \o (IF Truthy(body.notes) THEN <<"Notes: ", body.notes>> ELSE <<>>)
    \o <<"Created by: website reservation API">>

BuildEvent(body) ==
  [ summary |-> Summary(body),
    description |-> Description(body),
    start |-> [dateTime |-> toISOString(StartOf(body)), timeZone |-> "Europe/Riga"],
    end |-> [dateTime |-> toISOString(EndOf(body)), timeZone |-> "Europe/Riga"],
    attendees |-> IF Truthy(body.email) THEN <<body.email>> ELSE <<>> ]

NoEvent == [ summary |-> <<>>, description |-> <<>>,
             start |-> [dateTime |-> "", timeZone |-> ""],
             end |-> [dateTime |-> "", timeZone |-> ""],
             attendees |-> <<>> ]

\* ------------------------------------------------------------- credentials
MsgNoCreds == "No Google service account credentials found in env."
MsgNoFile == "Service account key file not found"
MsgBadJson == "Unexpected token in JSON"
MsgInvalidTime == "Invalid time value"
MsgGetClient == "getClient failed"
MsgInsert == "insert failed"

\* getAuthClient: Null when it returns an auth object, else the message of
\* the error it throws.
getAuthClient(e) ==
  IF Truthy(e.GOOGLE_SERVICE_ACCOUNT_KEY)
  THEN IF e.GOOGLE_SERVICE_ACCOUNT_KEY = "not json" THEN MsgBadJson ELSE Null
  ELSE IF Truthy(e.GOOGLE_APPLICATION_CREDENTIALS)
    THEN IF e.GOOGLE_APPLICATION_CREDENTIALS = "missing.json" THEN MsgNoFile ELSE Null
    ELSE MsgNoCreds

\* ------------------------------------------------------------- state
VARIABLES
  phase,      \* "starting", "listening" (app.listen done) or "exited"
  env,        \* process.env: CALENDAR_ID and the two credential sources
  pc,         \* per request: "idle", "awaitCalendar", "awaitInsert", "done"
  body,       \* per request: req.body
  inserts,    \* per request: calendar.events.insert calls made, in order
  responses,  \* per request: responses sent with res.status(..).json(..)
  outcomes,   \* per request: what its awaited calls settled with, in order
              \* (Null for a returned value, else the error's message)
  vbody,      \* validator under test: its argument
  verr        \* validator under test: its result ("pending" before the call)

vars == <<phase, env, pc, body, inserts, responses, outcomes, vbody, verr>>

Requests == 1..NReq

Instants == 0..MaxTime

\* Strings a date field of a payload is drawn from: empty, not a date, the
\* rendering of every instant, and a date past the representable range.
DateStrings == {"", "next tuesday"} \cup {IsoTable[t + 1] : t \in 0..(MaxTime + 1)}

Payload(n, s, e) ==
  [ name |-> n, email |-> Undefined, phone |-> "", startDateTime |-> s,
    endDateTime |-> e, partySize |-> Null, notes |-> "" ]

\* Payloads given to the validator under test.
ValidatorPayloads ==
  { Payload(n, s, e) : n \in {Undefined, "", "Amy"},
                       s \in {Undefined} \cup DateStrings,
                       e \in {Undefined} \cup DateStrings }

\* Renderings of the representable instants.
ServerDates == {IsoTable[t + 1] : t \in Instants}

\* Payloads posted to the server: under a name, every start instant with
\* every end instant or no end (the validator's other rules are exercised
\* on ValidatorPayloads); one payload whose start is no date; and one
\* without a name.
ServerPayloads ==
  { Payload("Amy", s, e) : s \in ServerDates, e \in {Undefined} \cup ServerDates }
    \cup { Payload("Amy", "next tuesday", Undefined),
           Payload(Undefined, IsoTable[1], Undefined) }

NoBody == Payload(Undefined, Undefined, Undefined)

\* process.env: the calendar identifier present or not, and at most one of
\* the two credential sources: the inline key (valid JSON or not) or the
\* key file path (of an existing file or not).
Environments ==
  { e \in [ CALENDAR_ID : {Undefined, "restaurant@example.com"},
            GOOGLE_SERVICE_ACCOUNT_KEY : {Undefined, "not json", "{key}"},
            GOOGLE_APPLICATION_CREDENTIALS : {Undefined, "missing.json", "key.json"} ] :
      ~(Truthy(e.GOOGLE_SERVICE_ACCOUNT_KEY) /\ Truthy(e.GOOGLE_APPLICATION_CREDENTIALS)) }

\* ------------------------------------------------------------- responses
\* Variant: a fixed message instead of the validator's.
Reply400Generic(err) ==
  [status |-> 400, error |-> "Bad request", details |-> Undefined, createdEvent |-> NoEvent]

Reply400(err) ==
  [status |-> 400, error |-> err, details |-> Undefined, createdEvent |-> NoEvent]

Reply500(msg) ==
  [status |-> 500, error |-> "Internal server error", details |-> msg,
   createdEvent |-> NoEvent]

Reply201(created) ==
  [status |-> 201, error |-> Undefined, details |-> Undefined, createdEvent |-> created]

Send(r, reply) == responses' = [responses EXCEPT ![r] = Append(@, reply)]

\* ------------------------------------------------------------- startup
\* Lines 13-19 and 148-150: exit when CALENDAR_ID is missing, else listen.
Startup ==
  /\ phase = "starting"
  /\ phase' = IF ~Truthy(env.CALENDAR_ID) THEN "exited" ELSE "listening"
  /\ UNCHANGED <<env, pc, body, inserts, responses, outcomes, vbody, verr>>

\* ------------------------------------------------------------- handler
\* The server accepts request r (requests are numbered in arrival order).
CanAccept(r) ==
  /\ phase = "listening"
  /\ pc[r] = "idle"
  /\ IF r = 1 THEN TRUE ELSE pc[r - 1] # "idle"

\* The handler from its entry to its first suspension: validation, the
\* start/end computation and rendering, and the call of getCalendar.
Receive(r, b) ==
  /\ CanAccept(r)
  /\ body' = [body EXCEPT ![r] = b]
  /\ IF validateReservation(b) # Null
     THEN /\ Send(r, Reply400(validateReservation(b)))
          /\ pc' = [pc EXCEPT ![r] = "done"]
     ELSE IF ~RenderOk(b)
       THEN /\ Send(r, Reply500(MsgInvalidTime))
            /\ pc' = [pc EXCEPT ![r] = "done"]
       ELSE /\ pc' = [pc EXCEPT ![r] = "awaitCalendar"]
            /\ UNCHANGED responses
  /\ UNCHANGED <<phase, env, inserts, outcomes, vbody, verr>>

\* Outcomes of auth.getClient() once getAuthClient has returned.
GetClientOutcomes == {Null, MsgGetClient}

\* Variant: the body is kept in one place shared by all requests, so the
\* event is built from the body of the request that arrived last.
CalendarSettledShared(r, outcome) ==
  /\ pc[r] = "awaitCalendar"
  /\ outcomes' = [outcomes EXCEPT ![r] =
       Append(@, IF getAuthClient(env) # Null THEN getAuthClient(env) ELSE outcome)]
  /\ LET failure == IF getAuthClient(env) # Null THEN getAuthClient(env) ELSE outcome
         last == CHOOSE q \in Requests :
                   pc[q] # "idle" /\ \A p \in Requests : pc[p] # "idle" => p <= q
     IN
     IF failure # Null
     THEN /\ Send(r, Reply500(failure))
          /\ pc' = [pc EXCEPT ![r] = "done"]
          /\ UNCHANGED inserts
     ELSE /\ inserts' = [inserts EXCEPT ![r] =
               Append(@, [calendarId |-> env.CALENDAR_ID,
                          requestBody |-> IF RenderOk(body[last]) /\ StartOf(body[last]) # NaN
                                          THEN BuildEvent(body[last]) ELSE NoEvent])]
          /\ pc' = [pc EXCEPT ![r] = "awaitInsert"]
          /\ UNCHANGED responses
  /\ UNCHANGED <<phase, env, body, vbody, verr>>

\* await getCalendar() settles: on failure the catch block answers 500, on
\* success the event is assembled and calendar.events.insert is called.
CalendarSettled(r, outcome) ==
  /\ pc[r] = "awaitCalendar"
  /\ outcomes' = [outcomes EXCEPT ![r] =
       Append(@, IF getAuthClient(env) # Null THEN getAuthClient(env) ELSE outcome)]
  /\ LET failure == IF getAuthClient(env) # Null THEN getAuthClient(env) ELSE outcome IN
     IF failure # Null
     THEN /\ Send(r, Reply500(failure))
          /\ pc' = [pc EXCEPT ![r] = "done"]
          /\ UNCHANGED inserts
     ELSE /\ inserts' = [inserts EXCEPT ![r] =
               Append(@, [calendarId |-> env.CALENDAR_ID, requestBody |-> BuildEvent(body[r])])]
          /\ pc' = [pc EXCEPT ![r] = "awaitInsert"]
          /\ UNCHANGED responses
  /\ UNCHANGED <<phase, env, body, vbody, verr>>

\* Outcomes of calendar.events.insert.
InsertOutcomes == {Null, MsgInsert}

\* Variant: a failed insert is attempted once more before giving up.
InsertSettledRetry(r, outcome) ==
  /\ pc[r] = "awaitInsert"
  /\ outcomes' = [outcomes EXCEPT ![r] = Append(@, outcome)]
  /\ IF outcome = Null
     THEN /\ Send(r, Reply201(inserts[r][Len(inserts[r])].requestBody))
          /\ pc' = [pc EXCEPT ![r] = "done"]
          /\ UNCHANGED inserts
     ELSE IF Len(inserts[r]) < 2
       THEN /\ inserts' = [inserts EXCEPT ![r] = Append(@, @[1])]
            /\ UNCHANGED <<pc, responses>>
       ELSE /\ Send(r, Reply500(outcome))
            /\ pc' = [pc EXCEPT ![r] = "done"]
            /\ UNCHANGED inserts
  /\ UNCHANGED <<phase, env, body, vbody, verr>>

\* Variant: the catch block logs the error and sends nothing.
InsertSettledSilent(r, outcome) ==
  /\ pc[r] = "awaitInsert"
  /\ outcomes' = [outcomes EXCEPT ![r] = Append(@, outcome)]
  /\ IF outcome = Null
     THEN Send(r, Reply201(inserts[r][Len(inserts[r])].requestBody))
     ELSE UNCHANGED responses
  /\ pc' = [pc EXCEPT ![r] = "done"]
  /\ UNCHANGED <<phase, env, body, inserts, vbody, verr>>

\* await calendar.events.insert(..) settles: 201 with the created event, or
\* the catch block answers 500.
InsertSettled(r, outcome) ==
  /\ pc[r] = "awaitInsert"
  /\ outcomes' = [outcomes EXCEPT ![r] = Append(@, outcome)]
  /\ IF outcome = Null
     THEN Send(r, Reply201(inserts[r][Len(inserts[r])].requestBody))
     ELSE Send(r, Reply500(outcome))
  /\ pc' = [pc EXCEPT ![r] = "done"]
  /\ UNCHANGED <<phase, env, body, inserts, vbody, verr>>

\* ------------------------------------------------------------- specifications
Init ==
  /\ phase = "starting"
  /\ env \in Environments
  /\ pc = [r \in Requests |-> "idle"]
  /\ body = [r \in Requests |-> NoBody]
  /\ inserts = [r \in Requests |-> <<>>]
  /\ responses = [r \in Requests |-> <<>>]
  /\ outcomes = [r \in Requests |-> <<>>]
  /\ vbody = NoBody
  /\ verr = "pending"

Next ==
  \/ Startup
  \/ \E r \in Requests, b \in ServerPayloads : Receive(r, b)
  \/ \E r \in Requests, o \in GetClientOutcomes : CalendarSettled(r, o)
  \/ \E r \in Requests, o \in InsertOutcomes : InsertSettled(r, o)

Spec == Init /\ [][Next]_vars

\* The validator alone, applied to one payload.
CallValidate ==
  /\ verr = "pending"
  /\ verr' = validateReservation(vbody)
  /\ UNCHANGED <<phase, env, pc, body, inserts, responses, outcomes, vbody>>

InitValidate ==
  /\ phase = "exited"
  /\ env = [CALENDAR_ID |-> Undefined, GOOGLE_SERVICE_ACCOUNT_KEY |-> Undefined,
            GOOGLE_APPLICATION_CREDENTIALS |-> Undefined]
  /\ pc = [r \in Requests |-> "idle"]
  /\ body = [r \in Requests |-> NoBody]
  /\ inserts = [r \in Requests |-> <<>>]
  /\ responses = [r \in Requests |-> <<>>]
  /\ outcomes = [r \in Requests |-> <<>>]
  /\ vbody \in ValidatorPayloads
  /\ verr = "pending"

NextValidate == CallValidate

SpecValidate == InitValidate /\ [][NextValidate]_vars

\* ------------------------------------------------------------- properties
\* The process is listening and accepts the next request to arrive.
StillServing ==
  /\ phase = "listening"
  /\ \A q \in Requests :
       (pc[q] = "idle" /\ (IF q = 1 THEN TRUE ELSE pc[q - 1] # "idle")) => CanAccept(q)

\* Messages of the errors the collaborator side raises (credential and
\* client setup in getCalendar, and the insert call).
CollaboratorMessages == {MsgNoCreds, MsgNoFile, MsgBadJson, MsgGetClient, MsgInsert}

\* C1: a request whose payload fails validation is answered 400 with exactly
\* the validator's error string, neither getCalendar nor insert is invoked
\* for it, and the process goes on serving.
C1_InvalidAnswered400 ==
  \A r \in Requests :
    (pc[r] # "idle" /\ validateReservation(body[r]) # Null) =>
      /\ pc[r] = "done"
      /\ responses[r] = << [status |-> 400, error |-> validateReservation(body[r]),
                           details |-> Undefined, createdEvent |-> NoEvent] >>
      /\ outcomes[r] = <<>>
      /\ inserts[r] = <<>>
      /\ StillServing

\* An invalid request was answered 400 and a request that arrived after it
\* was answered 201.
C1_Witness ==
  \E r, q \in Requests :
    /\ r < q
    /\ pc[r] = "done" /\ validateReservation(body[r]) # Null
    /\ responses[r][1].status = 400
    /\ pc[q] = "done" /\ responses[q][1].status = 201

\* C2: insert is invoked exactly once for every request whose payload passes
\* validation, and zero times for a request whose payload fails it.
C2_InsertOncePerValid ==
  \A r \in Requests :
    pc[r] = "done" =>
      Len(inserts[r]) = (IF validateReservation(body[r]) = Null THEN 1 ELSE 0)

\* C3: the process listens only if the calendar identifier is present and a
\* credential source is configured and valid.
C3_ListenOnlyIfConfigured ==
  phase = "listening" => (Truthy(env.CALENDAR_ID) /\ getAuthClient(env) = Null)

\* C4: when an awaited collaborator call fails, the request is answered 500
\* with "Internal server error" and the underlying message, nothing is
\* awaited or inserted after the failure (no retry, at most one insert), and
\* the process goes on serving.
C4_CollaboratorFailure500 ==
  \A r \in Requests : \A i \in 1..Len(outcomes[r]) :
    outcomes[r][i] # Null =>
      /\ i = Len(outcomes[r])
      /\ pc[r] = "done"
      /\ responses[r] = << [status |-> 500, error |-> "Internal server error",
                           details |-> outcomes[r][i], createdEvent |-> NoEvent] >>
      /\ Len(inserts[r]) <= 1
      /\ Len(inserts[r]) = i - 1
      /\ StillServing

\* The insert call of a request failed, the request was answered 500, and
\* the next request is still to arrive at the listening process.
C4_Witness ==
  \E r, q \in Requests :
    /\ q = r + 1
    /\ outcomes[r] = <<Null, MsgInsert>>
    /\ responses[r][1].status = 500
    /\ pc[q] = "idle" /\ CanAccept(q)

\* C5: the validator returns the error of the first failing rule, in the
\* order: required fields, start parses, supplied end parses, end after
\* start; and nothing when no rule fails.
C5_RulesInOrder ==
  verr # "pending" =>
    LET n == vbody.name
        s == vbody.startDateTime
        e == vbody.endDateTime
        missing(v) == v = Undefined \/ v = ""
    IN
    IF missing(n) \/ missing(s) THEN verr = ErrRequired
    ELSE IF ParseDate(s) = NaN THEN verr = ErrStart
    ELSE IF ~missing(e) /\ ParseDate(e) = NaN THEN verr = ErrEnd
    ELSE IF ~missing(e) /\ ParseDate(e) <= ParseDate(s) THEN verr = ErrOrder
    ELSE verr = Null

\* The validator was given a name, an unparseable start and an unparseable
\* end, and reported the start.
C5_Witness ==
  /\ vbody.name = "Amy"
  /\ vbody.startDateTime = "next tuesday"
  /\ vbody.endDateTime = "next tuesday"
  /\ verr = ErrStart

\* C6 (as stated): with a name and a valid start, every end that is present
\* and does not parse, the empty string included, yields the invalid-end
\* error.
C6_PresentUnparseableEnd ==
  ( /\ verr # "pending"
    /\ Truthy(vbody.name)
    /\ ParseDate(vbody.startDateTime) # NaN
    /\ vbody.endDateTime # Undefined
    /\ ParseDate(vbody.endDateTime) = NaN ) => verr = ErrEnd

\* C6 (amended): with a name and a valid start, every non-empty end that
\* does not parse yields the invalid-end error, and the empty string is
\* treated as no end at all: the validator returns nothing.
C6_NonEmptyUnparseableEnd ==
  ( /\ verr # "pending"
    /\ Truthy(vbody.name)
    /\ ParseDate(vbody.startDateTime) # NaN
    /\ vbody.endDateTime # Undefined
    /\ ParseDate(vbody.endDateTime) = NaN ) =>
      verr = (IF vbody.endDateTime = "" THEN Null ELSE ErrEnd)

\* The validator was given a name, a valid start and an end past the
\* representable range, and reported the end.
C6_Witness ==
  /\ vbody.name = "Amy"
  /\ ParseDate(vbody.startDateTime) # NaN
  /\ vbody.endDateTime = IsoTable[MaxTime + 2]
  /\ verr = ErrEnd

\* C7: in every event handed to insert, the end is strictly after the
\* start, and when the payload supplies no endDateTime the end is the start
\* plus exactly two hours.
C7_EndAfterStart ==
  \A r \in Requests : \A i \in 1..Len(inserts[r]) :
    LET ev == inserts[r][i].requestBody
        s == ParseDate(ev.start.dateTime)
        e == ParseDate(ev.end.dateTime)
    IN /\ s # NaN /\ e # NaN
       /\ e > s
       /\ ~Truthy(body[r].endDateTime) => e = s + TwoHours

\* An event was handed to insert for a payload without endDateTime.
C7_Witness ==
  \E r \in Requests :
    /\ Len(inserts[r]) = 1
    /\ body[r].endDateTime = Undefined

\* C8: every 500 response originates from the collaborator (credential and
\* client setup or the insert call), never from the event-building steps.
C8_Every500FromCollaborator ==
  \A r \in Requests : \A i \in 1..Len(responses[r]) :
    responses[r][i].status = 500 => responses[r][i].details \in CollaboratorMessages

\* What a request with payload b whose awaited calls settled with the
\* outcomes o has sent to insert, and has been answered, when handled alone.
AloneInserts(b, o) ==
  IF validateReservation(b) = Null /\ RenderOk(b) /\ Len(o) >= 1 /\ o[1] = Null
  THEN << [calendarId |-> env.CALENDAR_ID, requestBody |-> BuildEvent(b)] >>
  ELSE <<>>

AloneResponses(b, o) ==
  IF validateReservation(b) # Null THEN << Reply400(validateReservation(b)) >>
  ELSE IF ~RenderOk(b) THEN << Reply500(MsgInvalidTime) >>
  ELSE IF Len(o) = 0 THEN <<>>
  ELSE IF o[1] # Null THEN << Reply500(o[1]) >>
  ELSE IF Len(o) = 1 THEN <<>>
  ELSE IF o[2] # Null THEN << Reply500(o[2]) >>
  ELSE << Reply201(BuildEvent(b)) >>

\* C9: under every interleaving, what is sent to insert and what is
\* answered for a request is what its own payload and its own collaborator
\* outcomes give when it is handled alone.
C9_RequestsIndependent ==
  \A r \in Requests :
    pc[r] # "idle" =>
      /\ inserts[r] = AloneInserts(body[r], outcomes[r])
      /\ responses[r] = AloneResponses(body[r], outcomes[r])

\* Two requests with different events were in flight together (the first
\* had not been answered when the second arrived), each awaiting the
\* insert call of its own event.
C9_Witness ==
  \E r, q \in Requests :
    /\ r < q
    /\ pc[r] = "awaitInsert" /\ pc[q] = "awaitInsert"
    /\ inserts[r][1].requestBody # inserts[q][1].requestBody

\* C10: a request is answered at most once, and exactly once as soon as no
\* collaborator call of it is pending; the status is 201, 400 or 500; and
\* 201 is sent only once the insert call of that request has returned.
C10_AnsweredOnce ==
  \A r \in Requests :
    /\ Len(responses[r]) <= 1
    /\ pc[r] \in {"idle", "awaitCalendar", "awaitInsert"} => Len(responses[r]) = 0
    /\ pc[r] = "done" => Len(responses[r]) = 1
    /\ pc[r] = "awaitCalendar" => Len(outcomes[r]) = 0
    /\ pc[r] = "awaitInsert" => (Len(outcomes[r]) = 1 /\ Len(inserts[r]) = 1)
    /\ \A i \in 1..Len(responses[r]) :
         /\ responses[r][i].status \in {201, 400, 500}
         /\ responses[r][i].status = 201 =>
              (outcomes[r] = <<Null, Null>> /\ Len(inserts[r]) = 1)

\* A request was answered 201 after its insert call returned, and another
\* was answered 500 after its insert call failed.
C10_Witness ==
  \E r, q \in Requests :
    /\ pc[r] = "done" /\ responses[r][1].status = 201
    /\ pc[q] = "done" /\ outcomes[q] = <<Null, MsgInsert>>
    /\ Len(responses[q]) = 1

====
